---- MODULE Spec2Model ----
(***************************************************************************)
(* Model of the debt-settlement engine of travel-tab:                      *)
(* calculateTripDebts(expenses, members) in src/src/lib/debt-calculator.ts *)
(*                                                                         *)
(* A JavaScript number carrying money is the record [kind, val]: kind is   *)
(* "finite", "NaN", "Infinity" or "-Infinity", and val counts thousandths  *)
(* of the currency unit (1000 = 1.00, 5 = 0.005), so that amounts finer    *)
(* than a cent exist and toCents has something to round.  Cents are plain  *)
(* integers.                                                               *)
(*                                                                         *)
(* Every variable is a function of the invocation (Calls): the locals of   *)
(* two invocations of the function live side by side.                      *)
(***************************************************************************)
EXTENDS Integers, Sequences, FiniteSets, TLC

VARIABLES
    pc,                  \* position of each invocation in the function body
    expenses,            \* argument: ExpenseInput[]
    members,             \* argument: UserId[]
    k,                   \* for (const expense of expenses): expenses consumed so far
    balanceCentsByUser,  \* Map<UserId, number>
    netBalances,         \* Record<UserId, number>
    creditors,           \* BalanceEntry[]
    debtors,             \* BalanceEntry[]
    creditorCents,       \* BalanceCentsEntry[], sorted, mutated by the matching loop
    debtorCents,         \* BalanceCentsEntry[], sorted, mutated by the matching loop
    i,                   \* cursor into debtorCents (0-based, as in the source)
    j,                   \* cursor into creditorCents (0-based, as in the source)
    settlements,         \* SettlementTransaction[]
    error,               \* the Error thrown, NoError while none was
    stored,              \* the trip's expense rows in storage
    stale,               \* the cached page is invalidated and not rendered again yet
    split                \* a call of splitCentsEqually: its arguments and what came of it

vars == <<pc, expenses, members, k, balanceCentsByUser, netBalances, creditors,
          debtors, creditorCents, debtorCents, i, j, settlements, error,
          stored, stale, split>>

\* The storage, the page cache and the expense form, which calculateTripDebts
\* never touches.
page == <<stored, stale, split>>

Calls == {1, 2}

CURRENCY_SCALE == 100

(***************************************************************************)
(* Bounds of the input space.                                              *)
(***************************************************************************)
MaxExpenses == 2
MaxCents == 20000
MaxTotalCents == 7

----------------------------------------------------------------------------
(* JavaScript numbers *)

Num(v) == [kind |-> "finite", val |-> v]
NaN == [kind |-> "NaN", val |-> 0]
Infinity == [kind |-> "Infinity", val |-> 0]
NegInfinity == [kind |-> "-Infinity", val |-> 0]

\* Number.isFinite(amount)
IsFinite(amount) == amount.kind = "finite"

\* amount < 0 (false for NaN and Infinity, true for -Infinity)
IsNegative(amount) ==
    \/ amount.kind = "-Infinity"
    \/ amount.kind = "finite" /\ amount.val < 0

\* Mutant of toCentsThrows: the Number.isFinite check is missing.
toCentsNeverThrows(amount) == FALSE

\* toCents throws `Invalid amount` on a non-finite amount.
toCentsThrows(amount) == ~IsFinite(amount)

\* Math.round((amount + Number.EPSILON) * CURRENCY_SCALE): to the nearest cent,
\* a half rounds up.  amount.val is in thousandths of a unit.  The amount is
\* taken as the exact decimal: the binary representation error of a double,
\* which the EPSILON bias is there to counter, is not modelled.
toCents(amount) == (amount.val * CURRENCY_SCALE + 500) \div 1000

\* Mutant of fromCents: whole units only, the cents are cut off.
fromCentsWholeUnits(cents) == Num((cents \div CURRENCY_SCALE) * 1000)

\* Mutant of fromCents: toFixed(1), one decimal place.
fromCentsOneDecimal(cents) == Num((((cents * 1000) \div CURRENCY_SCALE) \div 100) * 100)

\* Number((cents / CURRENCY_SCALE).toFixed(2))
fromCents(cents) == Num((cents * 1000) \div CURRENCY_SCALE)

\* Math.abs, Math.min
Abs(n) == IF n < 0 THEN -n ELSE n
Min(a, b) == IF a < b THEN a ELSE b

----------------------------------------------------------------------------
(* Sequences *)

RECURSIVE SumSeq(_)
\* arr.reduce((sum, v) => sum + v, 0)
SumSeq(s) == IF s = <<>> THEN 0 ELSE Head(s) + SumSeq(Tail(s))

\* arr.slice(n).reduce((sum, e) => sum + e.cents, 0)
RemainingCents(s, n) ==
    SumSeq([x \in 1..(Len(s) - n) |-> s[n + x].cents])

Range(s) == {s[x] : x \in DOMAIN s}

\* function sortByCentsDesc(a, b): > 0 when a sorts after b
sortByCentsDesc(a, b) == b.cents - a.cents

RECURSIVE InsertSorted(_, _)
\* Place e behind every entry it does not sort strictly before.
InsertSorted(s, e) ==
    IF s = <<>> THEN <<e>>
    ELSE IF sortByCentsDesc(Head(s), e) > 0
         THEN <<e>> \o s
         ELSE <<Head(s)>> \o InsertSorted(Tail(s), e)

RECURSIVE SortEntries(_)
\* Array.prototype.sort(sortByCentsDesc): a stable sort (ECMAScript 2019).
SortEntries(s) ==
    IF s = <<>> THEN <<>>
    ELSE InsertSorted(SortEntries(SubSeq(s, 1, Len(s) - 1)), s[Len(s)])

----------------------------------------------------------------------------
(* Errors: what the message of a thrown Error carries *)

Err(message, expense, user_id, value) ==
    [message |-> message, expense |-> expense, user_id |-> user_id, value |-> value]

NoError == Err("", "", "", Num(0))

RECURSIVE PayerError(_, _, _)
\* for (const payer of expense.payers): the first throw, in list order
PayerError(id, payers, memberSet) ==
    IF payers = <<>> THEN NoError
    ELSE LET payer == Head(payers) IN
         IF payer.user_id \notin memberSet
         THEN Err("payer user_id is not a trip member", id, payer.user_id, Num(0))
         ELSE IF IsNegative(payer.amount_paid)
         THEN Err("payer amount_paid must be >= 0", id, payer.user_id, Num(0))
         ELSE IF toCentsThrows(payer.amount_paid)
         THEN Err("Invalid amount", "", "", payer.amount_paid)
         ELSE PayerError(id, Tail(payers), memberSet)

RECURSIVE ShareError(_, _, _)
\* for (const share of expense.shares): the first throw, in list order
ShareError(id, shares, memberSet) ==
    IF shares = <<>> THEN NoError
    ELSE LET share == Head(shares) IN
         IF share.user_id \notin memberSet
         THEN Err("share user_id is not a trip member", id, share.user_id, Num(0))
         ELSE IF IsNegative(share.amount_owed)
         THEN Err("share amount_owed must be >= 0", id, share.user_id, Num(0))
         ELSE IF toCentsThrows(share.amount_owed)
         THEN Err("Invalid amount", "", "", share.amount_owed)
         ELSE ShareError(id, Tail(shares), memberSet)

\* payerCentsByIndex / shareCentsByIndex of an expense whose amounts are finite
PayerCents(expense) ==
    [x \in 1..Len(expense.payers) |-> toCents(expense.payers[x].amount_paid)]
ShareCents(expense) ==
    [x \in 1..Len(expense.shares) |-> toCents(expense.shares[x].amount_owed)]

\* Mutant of DiffCents: totalOwedCents - totalPaidCents.
DiffCentsOwedLessPaid(expense) == SumSeq(ShareCents(expense)) - SumSeq(PayerCents(expense))

\* diffCents = totalPaidCents - totalOwedCents
DiffCents(expense) == SumSeq(PayerCents(expense)) - SumSeq(ShareCents(expense))

RECURSIVE BestIndexFrom(_, _, _)
\* for (idx = 1; idx < length; idx++) if (cents[idx] > cents[bestIndex]) bestIndex = idx
\* (1-based here: best and idx are positions in the sequence)
BestIndexFrom(cents, best, idx) ==
    IF idx > Len(cents) THEN best
    ELSE BestIndexFrom(cents, IF cents[idx] > cents[best] THEN idx ELSE best, idx + 1)

RECURSIVE BestIndexFromLast(_, _, _)
BestIndexFromLast(cents, best, idx) ==
    IF idx > Len(cents) THEN best
    ELSE BestIndexFromLast(cents, IF cents[idx] >= cents[best] THEN idx ELSE best, idx + 1)

\* Mutant of BestIndex: >= for >, the last of the largest shares.
BestIndexLast(cents) == BestIndexFromLast(cents, 1, 2)

BestIndex(cents) == BestIndexFrom(cents, 1, 2)

\* Mutant of Adjusted: at most one cent of the difference is moved.
AdjustedByOneCent(expense) ==
    ShareCents(expense)[BestIndex(ShareCents(expense))]
        + (IF DiffCents(expense) > 0 THEN 1 ELSE IF DiffCents(expense) < 0 THEN -1 ELSE 0)

\* adjusted = shareCentsByIndex[bestIndex] + diffCents
Adjusted(expense) ==
    ShareCents(expense)[BestIndex(ShareCents(expense))] + DiffCents(expense)

\* Mutant of ReconciledShareCents: the difference is never put on a share.
UnreconciledShareCents(expense) == ShareCents(expense)

\* shareCentsByIndex after the rounding hardening
ReconciledShareCents(expense) ==
    IF DiffCents(expense) # 0
    THEN [ShareCents(expense) EXCEPT ![BestIndex(ShareCents(expense))] = Adjusted(expense)]
    ELSE ShareCents(expense)

\* Mutant of ExpenseError: the check adjusted < 0 is missing.
ExpenseErrorUnchecked(expense, memberSet) ==
    IF Len(expense.payers) = 0
    THEN Err("must have at least one payer", expense.id, "", Num(0))
    ELSE IF Len(expense.shares) = 0
    THEN Err("must have at least one share", expense.id, "", Num(0))
    ELSE IF PayerError(expense.id, expense.payers, memberSet) # NoError
    THEN PayerError(expense.id, expense.payers, memberSet)
    ELSE ShareError(expense.id, expense.shares, memberSet)

\* Everything one iteration of the expense loop can throw, in the order of the code.
ExpenseError(expense, memberSet) ==
    IF Len(expense.payers) = 0
    THEN Err("must have at least one payer", expense.id, "", Num(0))
    ELSE IF Len(expense.shares) = 0
    THEN Err("must have at least one share", expense.id, "", Num(0))
    ELSE IF PayerError(expense.id, expense.payers, memberSet) # NoError
    THEN PayerError(expense.id, expense.payers, memberSet)
    ELSE IF ShareError(expense.id, expense.shares, memberSet) # NoError
    THEN ShareError(expense.id, expense.shares, memberSet)
    ELSE IF DiffCents(expense) # 0 /\ Adjusted(expense) < 0
    THEN Err("cannot be balanced after rounding", expense.id, "",
             fromCents(DiffCents(expense)))
    ELSE NoError

\* balanceCentsByUser.get(id) ?? 0
Get(map, id) == IF id \in DOMAIN map THEN map[id] ELSE 0

\* balanceCentsByUser.set(id, value)
Set(map, id, value) ==
    [u \in DOMAIN map \cup {id} |-> IF u = id THEN value ELSE map[u]]

RECURSIVE AddPayers(_, _, _)
\* for (idx ...) balance[payers[idx].user_id] += payerCentsByIndex[idx]
AddPayers(map, payers, cents) ==
    IF payers = <<>> THEN map
    ELSE AddPayers(Set(map, Head(payers).user_id,
                       Get(map, Head(payers).user_id) + Head(cents)),
                   Tail(payers), Tail(cents))

RECURSIVE SubtractShares(_, _, _)
\* for (idx ...) balance[shares[idx].user_id] -= shareCentsByIndex[idx]
SubtractShares(map, shares, cents) ==
    IF shares = <<>> THEN map
    ELSE SubtractShares(Set(map, Head(shares).user_id,
                            Get(map, Head(shares).user_id) - Head(cents)),
                        Tail(shares), Tail(cents))

\* Mutant of Accumulate: the balances start again from 0 at every expense.
AccumulateLastOnly(map, expense) ==
    SubtractShares(AddPayers([u \in DOMAIN map |-> 0], expense.payers, PayerCents(expense)),
                   expense.shares, ReconciledShareCents(expense))

\* The balances after one expense that did not throw.
Accumulate(map, expense) ==
    SubtractShares(AddPayers(map, expense.payers, PayerCents(expense)),
                   expense.shares, ReconciledShareCents(expense))

----------------------------------------------------------------------------
(* Classification: lines 177-209 *)

\* Mutant of NetBalancesOf: Math.abs(cents), as for the debtors' amounts.
NetBalancesOfAbsolute(map, ms) == [m \in Range(ms) |-> fromCents(Abs(Get(map, m)))]

\* netBalances[memberId] = fromCents(cents), for every memberId of members
NetBalancesOf(map, ms) == [m \in Range(ms) |-> fromCents(Get(map, m))]

RECURSIVE NetSumCents(_, _)
\* netSumCents += cents, once per entry of members
NetSumCents(map, ms) ==
    IF ms = <<>> THEN 0 ELSE Get(map, Head(ms)) + NetSumCents(map, Tail(ms))

RECURSIVE CreditorCentsOfNonNegative(_, _)
\* Mutant of CreditorCentsOf: cents >= 0 for cents > 0.
CreditorCentsOfNonNegative(map, ms) ==
    IF ms = <<>> THEN <<>>
    ELSE (IF Get(map, Head(ms)) >= 0
          THEN <<[user_id |-> Head(ms), cents |-> Get(map, Head(ms))]>>
          ELSE <<>>) \o CreditorCentsOfNonNegative(map, Tail(ms))

RECURSIVE CreditorCentsOf(_, _)
\* if (cents > 0) creditorCents.push({ user_id, cents }), in the order of members
CreditorCentsOf(map, ms) ==
    IF ms = <<>> THEN <<>>
    ELSE (IF Get(map, Head(ms)) > 0
          THEN <<[user_id |-> Head(ms), cents |-> Get(map, Head(ms))]>>
          ELSE <<>>) \o CreditorCentsOf(map, Tail(ms))

RECURSIVE DebtorCentsOfSigned(_, _)
\* Mutant of DebtorCentsOf: Math.abs is missing.
DebtorCentsOfSigned(map, ms) ==
    IF ms = <<>> THEN <<>>
    ELSE (IF Get(map, Head(ms)) < 0
          THEN <<[user_id |-> Head(ms), cents |-> Get(map, Head(ms))]>>
          ELSE <<>>) \o DebtorCentsOfSigned(map, Tail(ms))

RECURSIVE DebtorCentsOf(_, _)
\* else if (cents < 0) debtorCents.push({ user_id, cents: Math.abs(cents) })
DebtorCentsOf(map, ms) ==
    IF ms = <<>> THEN <<>>
    ELSE (IF Get(map, Head(ms)) < 0
          THEN <<[user_id |-> Head(ms), cents |-> Abs(Get(map, Head(ms)))]>>
          ELSE <<>>) \o DebtorCentsOf(map, Tail(ms))

\* Mutant of BalanceEntries: the returned lists are the sorted ones.
BalanceEntriesSorted(centsEntries) ==
    [x \in 1..Len(centsEntries) |->
        [user_id |-> SortEntries(centsEntries)[x].user_id,
         amount |-> fromCents(SortEntries(centsEntries)[x].cents)]]

\* creditors / debtors: the same entries with amount = fromCents(cents)
BalanceEntries(centsEntries) ==
    [x \in 1..Len(centsEntries) |->
        [user_id |-> centsEntries[x].user_id, amount |-> fromCents(centsEntries[x].cents)]]

----------------------------------------------------------------------------
(* Matching: lines 221-248 *)

\* Mutant of TransferCents: the debtor's whole debt, whatever the creditor is owed.
TransferCentsWholeDebt(debtor, creditor) == debtor.cents

\* Mutant of TransferCents: Math.max for Math.min.
TransferCentsLargest(debtor, creditor) ==
    IF debtor.cents >= creditor.cents THEN debtor.cents ELSE creditor.cents

\* const transferCents = Math.min(debtor.cents, creditor.cents)
TransferCents(debtor, creditor) == Min(debtor.cents, creditor.cents)

\* Mutant of Settlement: the two ids swapped.
SettlementSwapped(debtor, creditor, transferCents) ==
    [payer_id |-> creditor.user_id, payee_id |-> debtor.user_id,
     amount |-> fromCents(transferCents)]

\* Mutant of Settlement: the debtor's id in both places.
SettlementToSelf(debtor, creditor, transferCents) ==
    [payer_id |-> debtor.user_id, payee_id |-> debtor.user_id,
     amount |-> fromCents(transferCents)]

\* Mutant of Settlement: the amount is all the creditor is still due.
SettlementOfCredit(debtor, creditor, transferCents) ==
    [payer_id |-> debtor.user_id, payee_id |-> creditor.user_id,
     amount |-> fromCents(creditor.cents)]

\* settlements.push({ payer_id: debtor.user_id, payee_id: creditor.user_id, amount })
Settlement(debtor, creditor, transferCents) ==
    [payer_id |-> debtor.user_id, payee_id |-> creditor.user_id,
     amount |-> fromCents(transferCents)]

\* Mutant of Advance: the cursor moves on whatever is left at it.
AdvanceAlways(cursor, cents) == cursor + 1

\* Mutant of Advance: cents < 0 for cents === 0.
AdvanceOnNegative(cursor, cents) == IF cents < 0 THEN cursor + 1 ELSE cursor

\* if (entry.cents === 0) cursor++  (lines 246-247)
Advance(cursor, cents) == IF cents = 0 THEN cursor + 1 ELSE cursor

\* if (transferCents > 0) { if (debtor.user_id === creditor.user_id) throw ... }
SelfPayment(debtor, creditor, transferCents) ==
    transferCents > 0 /\ debtor.user_id = creditor.user_id

----------------------------------------------------------------------------
(* The inputs *)

P(u, a) == [user_id |-> u, amount_paid |-> a]
S(u, a) == [user_id |-> u, amount_owed |-> a]
Shape(payers, shares) == [payers |-> payers, shares |-> shares]

\* 100.00 paid by one member and split three ways at 33.33 / 33.33 / 33.34.
ThreeWaySplit ==
    Shape(<<P("u1", Num(100000))>>,
          <<S("u1", Num(33330)), S("u2", Num(33330)), S("u3", Num(33340))>>)

\* Expenses whose paid and owed totals agree to the cent.
BalancedShapes ==
    { ThreeWaySplit,
      Shape(<<P("u1", Num(60000))>>,
            <<S("u1", Num(20000)), S("u2", Num(20000)), S("u3", Num(20000))>>),
      Shape(<<P("u1", Num(2000))>>, <<S("u2", Num(2000))>>),
      Shape(<<P("u2", Num(1000))>>, <<S("u1", Num(1000))>>),
      Shape(<<P("u1", Num(3000))>>, <<S("u2", Num(1000)), S("u3", Num(2000))>>),
      Shape(<<P("u3", Num(2000))>>, <<S("u4", Num(2000))>>),
      Shape(<<P("u1", Num(1000))>>, <<S("u1", Num(1000))>>),
      Shape(<<P("u1", Num(0))>>, <<S("u2", Num(0))>>),
      Shape(<<P("u1", Num(1000)), P("u1", Num(1000))>>, <<S("u2", Num(2000))>>),
      Shape(<<P("u1", Num(3000)), P("u2", Num(2000))>>,
            <<S("u3", Num(4000)), S("u4", Num(1000))>>),
      Shape(<<P("u1", Num(4000)), P("u2", Num(1000))>>,
            <<S("u3", Num(3000)), S("u4", Num(2000))>>),
      Shape(<<P("u1", Num(2000)), P("u2", Num(1000))>>,
            <<S("u3", Num(2000)), S("u4", Num(1000))>>),
      Shape(<<P("u1", Num(1000)), P("u2", Num(1000))>>,
            <<S("u3", Num(1000)), S("u4", Num(1000))>>) }

\* Expenses whose totals differ: by a cent of rounding, or by whole units.
UnbalancedShapes ==
    { Shape(<<P("u1", Num(10000))>>,
            <<S("u2", Num(3333)), S("u3", Num(3333)), S("u1", Num(3333))>>),
      Shape(<<P("u1", Num(1005))>>, <<S("u2", Num(1000))>>),
      Shape(<<P("u1", Num(1000))>>, <<S("u2", Num(505)), S("u3", Num(505))>>),
      Shape(<<P("u1", Num(5000))>>, <<S("u2", Num(1000))>>),
      Shape(<<P("u1", Num(1000))>>, <<S("u2", Num(3000)), S("u3", Num(1000))>>),
      Shape(<<P("u2", Num(1000))>>, <<S("u1", Num(1000)), S("u3", Num(3000))>>),
      Shape(<<P("u1", Num(1000))>>, <<S("u2", Num(2000))>>),
      Shape(<<P("u1", Num(0))>>, <<S("u2", Num(1000))>>),
      Shape(<<P("u1", Num(0))>>, <<S("u2", Num(1000)), S("u3", Num(1000))>>) }

\* Expenses that break a precondition.
InvalidShapes ==
    { Shape(<<>>, <<S("u1", Num(1000))>>),
      Shape(<<P("u1", Num(1000))>>, <<>>),
      Shape(<<P("u9", Num(1000))>>, <<S("u1", Num(1000))>>),
      Shape(<<P("u1", Num(1000))>>, <<S("u9", Num(1000))>>),
      Shape(<<P("u1", Num(-1000))>>, <<S("u2", Num(1000))>>),
      Shape(<<P("u1", Num(1000))>>, <<S("u2", Num(-1000))>>),
      Shape(<<P("u1", NaN)>>, <<S("u2", Num(1000))>>),
      Shape(<<P("u1", Num(1000))>>, <<S("u2", Infinity)>>),
      Shape(<<P("u1", NegInfinity)>>, <<S("u2", Num(1000))>>) }

Shapes == BalancedShapes \cup UnbalancedShapes \cup InvalidShapes

\* The id of the expense at position n of the list handed in.
ExpenseId(n) == "e" \o ToString(n)

WithIds(shapes) ==
    [n \in 1..Len(shapes) |->
        [id |-> ExpenseId(n), payers |-> shapes[n].payers, shares |-> shapes[n].shares]]

ExpenseLists ==
    { WithIds(shapes) : shapes \in UNION { [1..n -> Shapes] : n \in 0..MaxExpenses } }

\* A smaller choice of the same kinds of expense, for the specifications that
\* run two invocations or check liveness.
CoreShapes ==
    { Shape(<<P("u1", Num(2000))>>, <<S("u2", Num(2000))>>),
      Shape(<<P("u2", Num(1000))>>, <<S("u1", Num(1000))>>),
      Shape(<<P("u1", Num(3000))>>, <<S("u2", Num(1000)), S("u3", Num(2000))>>),
      Shape(<<P("u1", Num(3000)), P("u2", Num(2000))>>,
            <<S("u3", Num(4000)), S("u4", Num(1000))>>),
      Shape(<<P("u1", Num(10000))>>,
            <<S("u2", Num(3333)), S("u3", Num(3333)), S("u1", Num(3333))>>),
      Shape(<<P("u1", Num(1000))>>, <<S("u2", Num(505)), S("u3", Num(505))>>),
      Shape(<<P("u1", Num(5000))>>, <<S("u2", Num(1000))>>),
      Shape(<<P("u1", Num(0))>>, <<S("u2", Num(1000)), S("u3", Num(1000))>>),
      Shape(<<>>, <<S("u1", Num(1000))>>),
      Shape(<<P("u1", Num(1000))>>, <<S("u9", Num(1000))>>),
      Shape(<<P("u1", NaN)>>, <<S("u2", Num(1000))>>) }

CoreLists ==
    { WithIds(shapes) : shapes \in UNION { [1..n -> CoreShapes] : n \in 0..MaxExpenses } }

CoreRosters ==
    { <<"u1", "u2">>, <<"u1", "u2", "u3", "u4">>, <<"u4", "u3", "u2", "u1">>,
      <<"u1", "u2", "u1">> }

\* Member lists: in and out of order, and with ids listed twice.
Rosters ==
    { <<>>, <<"u1">>, <<"u1", "u2">>, <<"u1", "u2", "u3">>,
      <<"u1", "u2", "u3", "u4">>, <<"u4", "u3", "u2", "u1">>,
      <<"u1", "u2", "u1">>, <<"u1", "u1", "u2", "u2">> }

Distinct(ms) == Cardinality(Range(ms)) = Len(ms)

----------------------------------------------------------------------------
(* The state machine *)

\* A row of the expense table with its payers and shares (the select of
\* getFullExpenses).
Row(expense, is_settlement) ==
    [id |-> expense.id, payers |-> expense.payers, shares |-> expense.shares,
     is_settlement |-> is_settlement]

\* An invocation that has not been made.
Idle == [expenses |-> <<>>, members |-> <<>>, pc |-> "idle"]
Invocation(es, ms) == [expenses |-> es, members |-> ms, pc |-> "start"]

InitCalls(inv) ==
    /\ pc = [c \in Calls |-> inv[c].pc]
    /\ expenses = [c \in Calls |-> inv[c].expenses]
    /\ members = [c \in Calls |-> inv[c].members]
    /\ k = [c \in Calls |-> 0]
    /\ balanceCentsByUser = [c \in Calls |-> <<>>]
    /\ netBalances = [c \in Calls |-> <<>>]
    /\ creditors = [c \in Calls |-> <<>>]
    /\ debtors = [c \in Calls |-> <<>>]
    /\ creditorCents = [c \in Calls |-> <<>>]
    /\ debtorCents = [c \in Calls |-> <<>>]
    /\ i = [c \in Calls |-> 0]
    /\ j = [c \in Calls |-> 0]
    /\ settlements = [c \in Calls |-> <<>>]
    /\ error = [c \in Calls |-> NoError]
    /\ stored = [n \in 1..Len(inv[1].expenses) |-> Row(inv[1].expenses[n], FALSE)]
    /\ stale = FALSE

\* The two copies of splitCentsEqually: the one of the server action
\* (app/_actions/expenses.ts) and the one of the form (AddExpenseModal.tsx).
Copies == {"action", "modal"}

\* A call of splitCentsEqually that has not run yet.
SplitCall(copy, totalCents, userIds) ==
    [copy |-> copy, totalCents |-> totalCents, userIds |-> userIds,
     pc |-> "start", shares |-> <<>>]

\* The invocations, and an expense of 10 cents to split among three members.
InitWith(inv) ==
    /\ InitCalls(inv)
    /\ split = SplitCall("action", 10, <<"u1", "u2", "u3">>)

\* One invocation, on any input.
Init ==
    \E es \in ExpenseLists, ms \in Rosters :
        InitWith(<<Invocation(es, ms), Idle>>)

\* One invocation, on an input of the smaller choice.
InitCore ==
    \E es \in CoreLists, ms \in CoreRosters :
        InitWith(<<Invocation(es, ms), Idle>>)

\* Two invocations on the same input.
InitTwice ==
    \E es \in CoreLists, ms \in CoreRosters :
        InitWith(<<Invocation(es, ms), Invocation(es, ms)>>)

\* The permutations of a list.
Shuffles(es) ==
    { [n \in 1..Len(es) |-> es[f[n]]] :
        f \in { g \in [1..Len(es) -> 1..Len(es)] :
                   \A a, b \in 1..Len(es) : a # b => g[a] # g[b] } }

\* Two invocations with the same members, the expenses in different orders.
InitShuffled ==
    \E es \in CoreLists, ms \in CoreRosters :
        \E shuffled \in Shuffles(es) :
            InitWith(<<Invocation(es, ms), Invocation(shuffled, ms)>>)

Returned(c) == pc[c] = "returned"
Threw(c) == pc[c] = "thrown"

\* Mutant of InitialBalances: one map for all invocations, a member's balance
\* is set to 0 only when the map does not hold it yet.
InitialBalancesKept(ms) ==
    [m \in Range(ms) |-> Get(balanceCentsByUser[1], m) + Get(balanceCentsByUser[2], m)]

\* Mutant of InitialBalances: the map is a module-level one, and a member
\* starts from what the first invocation has left there.
InitialBalancesShared(ms) == [m \in Range(ms) |-> Get(balanceCentsByUser[1], m)]

\* new Map with every member at 0 (lines 88-94)
InitialBalances(ms) == [m \in Range(ms) |-> 0]

Enter(c) ==
    /\ pc[c] = "start"
    /\ balanceCentsByUser' = [balanceCentsByUser EXCEPT ![c] = InitialBalances(members[c])]
    /\ pc' = [pc EXCEPT ![c] = "expenses"]
    /\ UNCHANGED <<expenses, members, k, netBalances, creditors, debtors,
                   creditorCents, debtorCents, i, j, settlements, error>>
    /\ UNCHANGED page

\* One iteration of for (const expense of expenses) (lines 96-175)
NextExpense(c) ==
    /\ pc[c] = "expenses"
    /\ k[c] < Len(expenses[c])
    /\ LET expense == expenses[c][k[c] + 1]
           thrown == ExpenseError(expense, Range(members[c]))
       IN  IF thrown # NoError
           THEN /\ error' = [error EXCEPT ![c] = thrown]
                /\ pc' = [pc EXCEPT ![c] = "thrown"]
                /\ UNCHANGED <<k, balanceCentsByUser>>
           ELSE /\ balanceCentsByUser' =
                      [balanceCentsByUser EXCEPT ![c] = Accumulate(@, expense)]
                /\ k' = [k EXCEPT ![c] = @ + 1]
                /\ UNCHANGED <<pc, error>>
    /\ UNCHANGED <<expenses, members, netBalances, creditors, debtors,
                   creditorCents, debtorCents, i, j, settlements>>
    /\ UNCHANGED page

\* Lines 177-219: net balances, the two lists, the net-sum check, the sort,
\* and the return of a trip that is already settled.
Classify(c) ==
    /\ pc[c] = "expenses"
    /\ k[c] = Len(expenses[c])
    /\ LET map == balanceCentsByUser[c]
           ms == members[c]
           cs == CreditorCentsOf(map, ms)
           ds == DebtorCentsOf(map, ms)
       IN  /\ netBalances' = [netBalances EXCEPT ![c] = NetBalancesOf(map, ms)]
           /\ creditors' = [creditors EXCEPT ![c] = BalanceEntries(cs)]
           /\ debtors' = [debtors EXCEPT ![c] = BalanceEntries(ds)]
           /\ IF NetSumCents(map, ms) # 0
              THEN /\ error' = [error EXCEPT ![c] =
                          Err("Net balances do not sum to zero", "", "",
                              fromCents(NetSumCents(map, ms)))]
                   /\ pc' = [pc EXCEPT ![c] = "thrown"]
                   /\ creditorCents' = [creditorCents EXCEPT ![c] = cs]
                   /\ debtorCents' = [debtorCents EXCEPT ![c] = ds]
              ELSE /\ creditorCents' = [creditorCents EXCEPT ![c] = SortEntries(cs)]
                   /\ debtorCents' = [debtorCents EXCEPT ![c] = SortEntries(ds)]
                   /\ pc' = [pc EXCEPT ![c] =
                          IF Len(ds) = 0 \/ Len(cs) = 0 THEN "returned" ELSE "match"]
                   /\ UNCHANGED error
    /\ UNCHANGED <<expenses, members, k, balanceCentsByUser, i, j, settlements>>
    /\ UNCHANGED page

\* One iteration of the matching loop (lines 224-248)
Match(c) ==
    /\ pc[c] = "match"
    /\ i[c] < Len(debtorCents[c])
    /\ j[c] < Len(creditorCents[c])
    /\ LET debtor == debtorCents[c][i[c] + 1]
           creditor == creditorCents[c][j[c] + 1]
           transferCents == TransferCents(debtor, creditor)
       IN  IF SelfPayment(debtor, creditor, transferCents)
           THEN /\ error' = [error EXCEPT ![c] =
                       Err("Invalid settlement: self-payment would occur.", "", "", Num(0))]
                /\ pc' = [pc EXCEPT ![c] = "thrown"]
                /\ UNCHANGED <<settlements, debtorCents, creditorCents, i, j>>
           ELSE /\ settlements' = [settlements EXCEPT ![c] =
                       IF transferCents > 0
                       THEN Append(@, Settlement(debtor, creditor, transferCents))
                       ELSE @]
                /\ debtorCents' = [debtorCents EXCEPT
                       ![c][i[c] + 1].cents = @ - transferCents]
                /\ creditorCents' = [creditorCents EXCEPT
                       ![c][j[c] + 1].cents = @ - transferCents]
                /\ i' = [i EXCEPT ![c] = Advance(@, debtor.cents - transferCents)]
                /\ j' = [j EXCEPT ![c] = Advance(@, creditor.cents - transferCents)]
                /\ UNCHANGED <<pc, error>>
    /\ UNCHANGED <<expenses, members, k, balanceCentsByUser, netBalances,
                   creditors, debtors>>
    /\ UNCHANGED page

\* The defensive check behind the loop and the return (lines 250-261)
Finish(c) ==
    /\ pc[c] = "match"
    /\ ~(i[c] < Len(debtorCents[c]) /\ j[c] < Len(creditorCents[c]))
    /\ IF \/ RemainingCents(debtorCents[c], i[c]) # 0
          \/ RemainingCents(creditorCents[c], j[c]) # 0
       THEN /\ error' = [error EXCEPT ![c] =
                   Err("Unsettled balances remain after simplification.", "", "", Num(0))]
            /\ pc' = [pc EXCEPT ![c] = "thrown"]
       ELSE /\ pc' = [pc EXCEPT ![c] = "returned"]
            /\ UNCHANGED error
    /\ UNCHANGED <<expenses, members, k, balanceCentsByUser, netBalances, creditors,
                   debtors, creditorCents, debtorCents, i, j, settlements>>
    /\ UNCHANGED page

\* splitCentsEqually of app/_actions/expenses.ts: pc "thrown" for the Error
\* `Cannot split expense with zero members`.  index is 0-based in the source.
splitCentsEqually(totalCents, userIds) ==
    IF Len(userIds) = 0
    THEN [pc |-> "thrown", shares |-> <<>>]
    ELSE LET base == totalCents \div Len(userIds)
             remainder == totalCents - base * Len(userIds)
         IN  [pc |-> "returned",
              shares |-> [x \in 1..Len(userIds) |->
                             [user_id |-> userIds[x],
                              amountCents |-> base + (IF x - 1 < remainder THEN 1 ELSE 0)]]]

\* splitCentsEqually of AddExpenseModal.tsx: no check of the length; of an
\* empty list base and remainder are Infinity or NaN and are never used, as
\* map calls back for no element.
splitCentsEquallyModal(totalCents, userIds) ==
    IF Len(userIds) = 0
    THEN [pc |-> "returned", shares |-> <<>>]
    ELSE LET base == totalCents \div Len(userIds)
             remainder == totalCents - base * Len(userIds)
         IN  [pc |-> "returned",
              shares |-> [x \in 1..Len(userIds) |->
                             [user_id |-> userIds[x],
                              cents |-> base + (IF x - 1 < remainder THEN 1 ELSE 0)]]]

\* The form is submitted on a page that has been rendered: the expense is split.
SplitCentsEqually ==
    /\ split.pc = "start"
    /\ pc[1] \in {"returned", "thrown"}
    /\ LET out == IF split.copy = "action"
                  THEN splitCentsEqually(split.totalCents, split.userIds)
                  ELSE splitCentsEquallyModal(split.totalCents, split.userIds)
       IN  split' = [split EXCEPT !.pc = out.pc, !.shares = out.shares]
    /\ UNCHANGED <<pc, expenses, members, k, balanceCentsByUser, netBalances,
                   creditors, debtors, creditorCents, debtorCents, i, j,
                   settlements, error, stored, stale>>

\* toNumberSafe(value): a number is handed on as it is
toNumberSafe(value) == value

\* The ExpenseInput the page builds from a row.
ExpenseInputOf(row) ==
    [id |-> row.id,
     payers |-> [x \in 1..Len(row.payers) |->
                    P(row.payers[x].user_id, toNumberSafe(row.payers[x].amount_paid))],
     shares |-> [x \in 1..Len(row.shares) |->
                    S(row.shares[x].user_id, toNumberSafe(row.shares[x].amount_owed))]]

ExpenseInputsOf(rows) == [n \in 1..Len(rows) |-> ExpenseInputOf(rows[n])]

\* fullExpenses.filter((e) => !e.is_settlement)
nonSettlementFullExpenses(fullExpenses) ==
    SelectSeq(fullExpenses, LAMBDA e : ~e.is_settlement)

\* The expense a confirmed settlement is stored as: the single payer payer_id
\* paying the amount, the single share payee_id owing it.
SettlementExpense(id, selected) ==
    [id |-> id,
     payers |-> <<P(selected.payer_id, selected.amount)>>,
     shares |-> <<S(selected.payee_id, selected.amount)>>]

\* The storage holds a settlement from this payer to this payee.
Recorded(selected) ==
    \E n \in 1..Len(stored) :
        /\ stored[n].is_settlement
        /\ stored[n].payers[1].user_id = selected.payer_id
        /\ stored[n].shares[1].user_id = selected.payee_id

\* The user confirms an entry of the plan on display, with the suggested amount:
\* recordSettlement stores it and invalidates the cached page.  A suggested
\* payment is confirmed once, on a page whose rendering has ended, while the
\* trip has fewer than MaxExpenses rows.
Confirm ==
    /\ Returned(1)
    /\ pc[2] \in {"idle", "returned", "thrown"}
    /\ Len(stored) < MaxExpenses
    /\ \E x \in 1..Len(settlements[1]) :
           LET selected == settlements[1][x]
           IN  /\ ~Recorded(selected)
               /\ stored' = Append(stored,
                      Row(SettlementExpense(ExpenseId(Len(stored) + 1), selected), TRUE))
    /\ stale' = TRUE
    /\ UNCHANGED split
    /\ UNCHANGED <<pc, expenses, members, k, balanceCentsByUser, netBalances,
                   creditors, debtors, creditorCents, debtorCents, i, j,
                   settlements, error>>

\* The page is rendered again after an invalidation: it calls calculateTripDebts
\* on the rows that are no settlements, with the trip's members.
TripDetailsPage ==
    /\ stale
    /\ pc[2] \in {"idle", "returned", "thrown"}
    /\ expenses' = [expenses EXCEPT
           ![2] = ExpenseInputsOf(nonSettlementFullExpenses(stored))]
    /\ members' = [members EXCEPT ![2] = members[1]]
    /\ pc' = [pc EXCEPT ![2] = "start"]
    /\ k' = [k EXCEPT ![2] = 0]
    /\ balanceCentsByUser' = [balanceCentsByUser EXCEPT ![2] = <<>>]
    /\ netBalances' = [netBalances EXCEPT ![2] = <<>>]
    /\ creditors' = [creditors EXCEPT ![2] = <<>>]
    /\ debtors' = [debtors EXCEPT ![2] = <<>>]
    /\ creditorCents' = [creditorCents EXCEPT ![2] = <<>>]
    /\ debtorCents' = [debtorCents EXCEPT ![2] = <<>>]
    /\ i' = [i EXCEPT ![2] = 0]
    /\ j' = [j EXCEPT ![2] = 0]
    /\ settlements' = [settlements EXCEPT ![2] = <<>>]
    /\ error' = [error EXCEPT ![2] = NoError]
    /\ stale' = FALSE
    /\ UNCHANGED <<stored, split>>

Next ==
    \/ \E c \in Calls :
           \/ Enter(c)
           \/ NextExpense(c)
           \/ Classify(c)
           \/ Match(c)
           \/ Finish(c)
    \/ Confirm
    \/ TripDetailsPage
    \/ SplitCentsEqually

Spec == Init /\ [][Next]_vars

SpecTwice == InitTwice /\ [][Next]_vars

SpecShuffled == InitShuffled /\ [][Next]_vars

\* for (const expense of expenses), when no expense throws
RECURSIVE AccumulateAll(_, _)
AccumulateAll(map, es) ==
    IF es = <<>> THEN map ELSE AccumulateAll(Accumulate(map, Head(es)), Tail(es))

\* The matching loop run to its end: the settlements it has pushed.
RECURSIVE MatchAll(_, _, _, _, _)
MatchAll(ds, cs, a, b, pushed) ==
    IF ~(a < Len(ds) /\ b < Len(cs)) THEN pushed
    ELSE LET debtor == ds[a + 1]
             creditor == cs[b + 1]
             transferCents == TransferCents(debtor, creditor)
         IN  MatchAll([ds EXCEPT ![a + 1].cents = @ - transferCents],
                      [cs EXCEPT ![b + 1].cents = @ - transferCents],
                      Advance(a, debtor.cents - transferCents),
                      Advance(b, creditor.cents - transferCents),
                      IF transferCents > 0
                      THEN Append(pushed, Settlement(debtor, creditor, transferCents))
                      ELSE pushed)

\* calculateTripDebts(es, ms) gets as far as the matching loop.
ReachesMatching(es, ms) ==
    /\ \A n \in 1..Len(es) : ExpenseError(es[n], Range(ms)) = NoError
    /\ NetSumCents(AccumulateAll(InitialBalances(ms), es), ms) = 0

\* calculateTripDebts(es, ms).settlements
SettlementsOf(es, ms) ==
    LET map == AccumulateAll(InitialBalances(ms), es)
    IN  MatchAll(SortEntries(DebtorCentsOf(map, ms)),
                 SortEntries(CreditorCentsOf(map, ms)), 0, 0, <<>>)

\* One settlement expense for each settlement of a plan, behind n expenses.
PseudoExpenses(ss, n) ==
    [x \in 1..Len(ss) |-> SettlementExpense(ExpenseId(n + x), ss[x])]

\* An invocation, and a second one on the same expenses followed by the
\* settlements of the first as expenses.
InitRoundTrip ==
    \E es \in CoreLists, ms \in CoreRosters :
        \E again \in { IF ReachesMatching(es, ms)
                        THEN Invocation(es \o PseudoExpenses(SettlementsOf(es, ms), Len(es)), ms)
                        ELSE Idle } :
            InitWith(<<Invocation(es, ms), again>>)

SpecRoundTrip == InitRoundTrip /\ [][Next]_vars

\* The matching loop run until it ends or throws: the lists, the cursors, the
\* settlements pushed and whether the self-payment guard fired.
RECURSIVE MatchEnd(_, _, _, _, _)
MatchEnd(ds, cs, a, b, pushed) ==
    IF ~(a < Len(ds) /\ b < Len(cs))
    THEN [debtorCents |-> ds, creditorCents |-> cs, i |-> a, j |-> b,
          settlements |-> pushed, selfPayment |-> FALSE]
    ELSE LET debtor == ds[a + 1]
             creditor == cs[b + 1]
             transferCents == TransferCents(debtor, creditor)
         IN  IF SelfPayment(debtor, creditor, transferCents)
             THEN [debtorCents |-> ds, creditorCents |-> cs, i |-> a, j |-> b,
                   settlements |-> pushed, selfPayment |-> TRUE]
             ELSE MatchEnd([ds EXCEPT ![a + 1].cents = @ - transferCents],
                           [cs EXCEPT ![b + 1].cents = @ - transferCents],
                           Advance(a, debtor.cents - transferCents),
                           Advance(b, creditor.cents - transferCents),
                           IF transferCents > 0
                           THEN Append(pushed, Settlement(debtor, creditor, transferCents))
                           ELSE pushed)

\* What a caller observes of a throw.
Thrown(thrown) ==
    [returned |-> FALSE,
     result |-> [netBalances |-> <<>>, creditors |-> <<>>,
                 debtors |-> <<>>, settlements |-> <<>>],
     error |-> thrown]

\* calculateTripDebts(es, ms) run from its first line to its last with nothing
\* else running: what the caller observes.
calculateTripDebts(es, ms) ==
    LET failing == { n \in 1..Len(es) : ExpenseError(es[n], Range(ms)) # NoError }
    IN  IF failing # {}
        THEN Thrown(ExpenseError(
                 es[CHOOSE n \in failing : \A o \in failing : n <= o], Range(ms)))
        ELSE
        LET map == AccumulateAll(InitialBalances(ms), es)
            cs == CreditorCentsOf(map, ms)
            ds == DebtorCentsOf(map, ms)
            kept == [netBalances |-> NetBalancesOf(map, ms),
                     creditors |-> BalanceEntries(cs), debtors |-> BalanceEntries(ds)]
        IN  IF NetSumCents(map, ms) # 0
            THEN Thrown(Err("Net balances do not sum to zero", "", "",
                            fromCents(NetSumCents(map, ms))))
            ELSE IF Len(ds) = 0 \/ Len(cs) = 0
            THEN [returned |-> TRUE, error |-> NoError,
                  result |-> [netBalances |-> kept.netBalances,
                              creditors |-> kept.creditors, debtors |-> kept.debtors,
                              settlements |-> <<>>]]
            ELSE
            LET end == MatchEnd(SortEntries(ds), SortEntries(cs), 0, 0, <<>>)
            IN  IF end.selfPayment
                THEN Thrown(Err("Invalid settlement: self-payment would occur.",
                                "", "", Num(0)))
                ELSE IF \/ RemainingCents(end.debtorCents, end.i) # 0
                        \/ RemainingCents(end.creditorCents, end.j) # 0
                THEN Thrown(Err("Unsettled balances remain after simplification.",
                                "", "", Num(0)))
                ELSE [returned |-> TRUE, error |-> NoError,
                      result |-> [netBalances |-> kept.netBalances,
                                  creditors |-> kept.creditors,
                                  debtors |-> kept.debtors,
                                  settlements |-> end.settlements]]

\* Inputs for two invocations at once: a plan of one settlement, a plan of
\* three, a reconciled expense on a roster out of order, a throw on the first
\* expense, a throw on the second, a roster with a repeated id, and no expenses.
PairInputs ==
    { [expenses |-> WithIds(<<Shape(<<P("u1", Num(2000))>>, <<S("u2", Num(2000))>>)>>),
       members |-> <<"u1", "u2">>],
      [expenses |-> WithIds(<<Shape(<<P("u1", Num(3000)), P("u2", Num(2000))>>,
                                    <<S("u3", Num(4000)), S("u4", Num(1000))>>),
                              Shape(<<P("u2", Num(1000))>>, <<S("u1", Num(1000))>>)>>),
       members |-> <<"u1", "u2", "u3", "u4">>],
      [expenses |-> WithIds(<<Shape(<<P("u1", Num(10000))>>,
                                    <<S("u2", Num(3333)), S("u3", Num(3333)),
                                      S("u1", Num(3333))>>)>>),
       members |-> <<"u4", "u3", "u2", "u1">>],
      [expenses |-> WithIds(<<Shape(<<P("u1", NaN)>>, <<S("u2", Num(1000))>>)>>),
       members |-> <<"u1", "u2">>],
      [expenses |-> WithIds(<<Shape(<<P("u2", Num(1000))>>, <<S("u1", Num(1000))>>),
                              Shape(<<P("u1", Num(1000))>>, <<S("u9", Num(1000))>>)>>),
       members |-> <<"u1", "u2">>],
      [expenses |-> WithIds(<<Shape(<<P("u1", Num(2000))>>, <<S("u2", Num(2000))>>)>>),
       members |-> <<"u1", "u2", "u1">>],
      [expenses |-> <<>>, members |-> <<"u1", "u2", "u3">>] }

\* One invocation alone, or two invocations on different inputs.
InitPair ==
    \E a \in PairInputs :
        \/ InitWith(<<Invocation(a.expenses, a.members), Idle>>)
        \/ \E b \in PairInputs \ {a} :
               InitWith(<<Invocation(a.expenses, a.members),
                          Invocation(b.expenses, b.members)>>)

SpecPair == InitPair /\ [][Next]_vars

\* The lists of user ids an expense is split among.
SplitRosters ==
    { <<>>, <<"u1">>, <<"u1", "u2">>, <<"u1", "u2", "u3">>, <<"u3", "u1", "u2">>,
      <<"u1", "u2", "u3", "u4">> }

\* A trip, and any call of either copy of splitCentsEqually.
InitSplit ==
    \E a \in PairInputs, copy \in Copies, totalCents \in 0..MaxTotalCents,
       userIds \in SplitRosters :
        /\ InitCalls(<<Invocation(a.expenses, a.members), Idle>>)
        /\ split = SplitCall(copy, totalCents, userIds)

SpecSplit == InitSplit /\ [][Next]_vars

----------------------------------------------------------------------------
(* What an invocation hands back *)

\* { netBalances, creditors, debtors, settlements }
Result(c) ==
    [netBalances |-> netBalances[c], creditors |-> creditors[c],
     debtors |-> debtors[c], settlements |-> settlements[c]]

Done(c) == Returned(c) \/ Threw(c)

\* A synchronous function runs on until it returns or throws.
FairSpec == InitCore /\ [][Next]_vars /\ WF_vars(Next)

----------------------------------------------------------------------------
(* Properties of the result *)

RECURSIVE SentCents(_, _)
\* The cents m sends: the amounts of the settlements whose payer_id is m.
SentCents(ss, m) ==
    IF ss = <<>> THEN 0
    ELSE (IF Head(ss).payer_id = m THEN toCents(Head(ss).amount) ELSE 0)
         + SentCents(Tail(ss), m)

RECURSIVE ReceivedCents(_, _)
\* The cents m receives: the amounts of the settlements whose payee_id is m.
ReceivedCents(ss, m) ==
    IF ss = <<>> THEN 0
    ELSE (IF Head(ss).payee_id = m THEN toCents(Head(ss).amount) ELSE 0)
         + ReceivedCents(Tail(ss), m)

\* The balance of m, in cents, once every returned settlement was executed.
Replayed(c, m) ==
    toCents(netBalances[c][m]) + SentCents(settlements[c], m)
        - ReceivedCents(settlements[c], m)

RECURSIVE SumBalanceCents(_, _)
\* The sum, in cents, of the net balances of the members in ids.
SumBalanceCents(balances, ids) ==
    IF ids = {} THEN 0
    ELSE LET m == CHOOSE x \in ids : TRUE
         IN  toCents(balances[m]) + SumBalanceCents(balances, ids \ {m})

\* C1 (settlement correctness): when calculateTripDebts returns on a roster of
\* distinct member ids, adding every settlement's amount to its payer_id's net
\* balance and subtracting it from its payee_id's leaves every member at 0 cents.
C1_SettlementCorrectness ==
    \A c \in Calls :
        (Returned(c) /\ Distinct(members[c])) =>
            \A m \in Range(members[c]) : Replayed(c, m) = 0

\* A debtor paid two creditors and a second debtor paid too: three settlements.
C1_Witness ==
    /\ Returned(1) /\ Distinct(members[1])
    /\ Len(settlements[1]) = 3
    /\ settlements[1][1].payer_id = settlements[1][2].payer_id
    /\ \A m \in Range(members[1]) : Replayed(1, m) = 0

\* C2 (conservation): whenever calculateTripDebts returns, the returned net
\* balances, counted in cents, sum to exactly 0 over the members.
C2_Conservation ==
    \A c \in Calls :
        Returned(c) => SumBalanceCents(netBalances[c], DOMAIN netBalances[c]) = 0

\* A return with a member who is owed money and one who owes.
C2_Witness ==
    /\ Returned(1)
    /\ \E m \in DOMAIN netBalances[1] : netBalances[1][m].val > 0
    /\ \E m \in DOMAIN netBalances[1] : netBalances[1][m].val < 0
    /\ Len(expenses[1]) = 2

C4_PayerIsReceiver ==
    \A c \in Calls :
        Returned(c) =>
            \A x \in 1..Len(settlements[c]) :
                LET s == settlements[c][x] IN
                /\ netBalances[c][s.payer_id].val > 0
                /\ netBalances[c][s.payee_id].val < 0

\* C5 (positivity): every settlement emitted has an amount strictly greater than 0.
C5_PositiveAmounts ==
    \A c \in Calls :
        \A x \in 1..Len(settlements[c]) :
            /\ IsFinite(settlements[c][x].amount)
            /\ settlements[c][x].amount.val > 0

\* A return with a settlement of less than one currency unit.
C5_Witness ==
    /\ Returned(1)
    /\ \E x \in 1..Len(settlements[1]) :
           /\ settlements[1][x].amount.val > 0
           /\ settlements[1][x].amount.val < 1000

\* C6 (no self-payment): no settlement has payer_id = payee_id, and on a roster
\* of distinct member ids the self-payment guard never throws.
C6_NoSelfPayment ==
    \A c \in Calls :
        /\ \A x \in 1..Len(settlements[c]) :
               settlements[c][x].payer_id # settlements[c][x].payee_id
        /\ Distinct(members[c]) =>
               error[c].message # "Invalid settlement: self-payment would occur."

\* The loop came past its guard: a settlement was emitted on a distinct roster.
C6_Witness ==
    /\ Distinct(members[1])
    /\ Len(members[1]) = 4
    /\ Len(settlements[1]) >= 1
    /\ Returned(1)

\* The settlements never outnumber d + c - 1, d debtors and c creditors.
WithinBound(c) ==
    (pc[c] \in {"match", "returned"} /\ Len(debtors[c]) > 0 /\ Len(creditors[c]) > 0) =>
        Len(settlements[c]) <= Len(debtors[c]) + Len(creditors[c]) - 1

\* C7 (termination): every invocation made returns or throws, so the matching
\* loop terminates; and with d debtors and c creditors, both lists non-empty, it
\* emits at most d + c - 1 settlements.
C7_TerminatesWithinBound ==
    /\ \A c \in Calls : pc[c] # "idle" ~> Done(c)
    /\ [](\A c \in Calls : WithinBound(c))

\* Two debtors and two creditors settled in exactly 2 + 2 - 1 transactions.
C7_Witness ==
    /\ Returned(1)
    /\ Len(debtors[1]) = 2 /\ Len(creditors[1]) = 2
    /\ Len(settlements[1]) = 3

\* What the caller of an invocation that has ended observes.
Outcome(c) ==
    IF Returned(c)
    THEN [returned |-> TRUE, result |-> Result(c), error |-> NoError]
    ELSE [returned |-> FALSE,
          result |-> [netBalances |-> <<>>, creditors |-> <<>>,
                      debtors |-> <<>>, settlements |-> <<>>],
          error |-> error[c]]

C9_OrderIndependent ==
    (/\ members[1] = members[2]
     /\ expenses[2] \in Shuffles(expenses[1])
     /\ Done(1) /\ Done(2)) =>
        /\ Threw(1) <=> Threw(2)
        /\ Returned(1) => netBalances[1] = netBalances[2]

\* Two different expenses in the two orders, and the same non-zero balances.
C9_Witness ==
    /\ Len(expenses[1]) = 2
    /\ expenses[1][1].payers # expenses[1][2].payers
    /\ expenses[2] = <<expenses[1][2], expenses[1][1]>>
    /\ Returned(1) /\ Returned(2)
    /\ netBalances[1] = netBalances[2]
    /\ \E m \in DOMAIN netBalances[1] : netBalances[1][m].val > 0

\* C10 (no expenses): with an empty expenses list and any member list the call
\* returns without error: every member's net balance is 0, and creditors, debtors
\* and settlements are empty.
C10_NoExpenses ==
    \A c \in Calls :
        (Done(c) /\ Len(expenses[c]) = 0) =>
            /\ Returned(c)
            /\ error[c] = NoError
            /\ DOMAIN netBalances[c] = Range(members[c])
            /\ \A m \in Range(members[c]) : netBalances[c][m] = Num(0)
            /\ creditors[c] = <<>>
            /\ debtors[c] = <<>>
            /\ settlements[c] = <<>>

\* A trip of three members and no expenses came back settled.
C10_Witness ==
    /\ Returned(1)
    /\ Len(expenses[1]) = 0
    /\ Len(members[1]) = 3
    /\ \A m \in Range(members[1]) : netBalances[1][m] = Num(0)

----------------------------------------------------------------------------
(* Preconditions and errors *)

\* The expense breaks a precondition of §4.1: no payer, no share, a user_id that
\* is not a member, or an amount that is negative or not finite.
BreaksPrecondition(expense, memberSet) ==
    \/ Len(expense.payers) = 0
    \/ Len(expense.shares) = 0
    \/ \E x \in 1..Len(expense.payers) :
           \/ expense.payers[x].user_id \notin memberSet
           \/ expense.payers[x].amount_paid.kind # "finite"
           \/ expense.payers[x].amount_paid.val < 0
    \/ \E x \in 1..Len(expense.shares) :
           \/ expense.shares[x].user_id \notin memberSet
           \/ expense.shares[x].amount_owed.kind # "finite"
           \/ expense.shares[x].amount_owed.val < 0

\* Nothing of a result exists: no net balance, no list entry, no settlement.
NoResult(c) ==
    /\ netBalances[c] = <<>> /\ creditors[c] = <<>> /\ debtors[c] = <<>>
    /\ settlements[c] = <<>>

\* C11 (invalid expense anywhere): if any expense of the input, at any position,
\* breaks a precondition, the invocation never gets past the expense loop, never
\* returns, ends by throwing, and no part of a result is ever built.
C11_InvalidExpenseFails ==
    \A c \in Calls :
        (\E n \in 1..Len(expenses[c]) :
             BreaksPrecondition(expenses[c][n], Range(members[c]))) =>
            /\ pc[c] \in {"start", "expenses", "thrown"}
            /\ Done(c) => Threw(c)
            /\ NoResult(c)

\* The second expense broke a precondition after a valid first one was accumulated.
C11_Witness ==
    /\ Threw(1)
    /\ k[1] = 1
    /\ ~BreaksPrecondition(expenses[1][1], Range(members[1]))
    /\ BreaksPrecondition(expenses[1][2], Range(members[1]))
    /\ \E m \in DOMAIN balanceCentsByUser[1] : balanceCentsByUser[1][m] # 0
    /\ NoResult(1)

\* The message names a field of the expense: its payers, its shares, a payer's
\* or a share's user_id, amount_paid or amount_owed.
NamesField(message) ==
    message \in { "must have at least one payer", "must have at least one share",
                  "payer user_id is not a trip member", "share user_id is not a trip member",
                  "payer amount_paid must be >= 0", "share amount_owed must be >= 0" }

\* C12 (errors identify expense and field): whenever an invocation throws on an
\* expense that breaks a precondition, the error carries the id of that expense
\* and names the offending field.
C12_ErrorIdentifiesExpenseAndField ==
    \A c \in Calls :
        (/\ Threw(c) /\ k[c] < Len(expenses[c])
         /\ BreaksPrecondition(expenses[c][k[c] + 1], Range(members[c]))) =>
            /\ error[c].expense = expenses[c][k[c] + 1].id
            /\ NamesField(error[c].message)

----------------------------------------------------------------------------
(* Reconciliation *)

\* The largest entry, the first in input order among equal largest ones.
FirstLargest(cents) ==
    CHOOSE x \in 1..Len(cents) :
        /\ \A y \in 1..Len(cents) : cents[y] <= cents[x]
        /\ \A y \in 1..(x - 1) : cents[y] < cents[x]

\* The shares as the claim corrects them: the whole difference between paid
\* and owed cents on the first largest share, every other share as rounded.
CorrectedShares(expense) ==
    LET paid == [x \in 1..Len(expense.payers) |-> toCents(expense.payers[x].amount_paid)]
        owed == [x \in 1..Len(expense.shares) |-> toCents(expense.shares[x].amount_owed)]
        diff == SumSeq(paid) - SumSeq(owed)
    IN  [x \in 1..Len(owed) |->
            IF diff # 0 /\ x = FirstLargest(owed) THEN owed[x] + diff ELSE owed[x]]

RECURSIVE CentsOf(_, _, _)
\* The cents of the entries (payers or shares) that name user u.
CentsOf(entries, cents, u) ==
    IF entries = <<>> THEN 0
    ELSE (IF Head(entries).user_id = u THEN Head(cents) ELSE 0)
         + CentsOf(Tail(entries), Tail(cents), u)

RECURSIVE ExpectedBalance(_, _, _)
\* What u was paid back minus what u owes over the first n expenses of es.
ExpectedBalance(es, n, u) ==
    IF n = 0 THEN 0
    ELSE ExpectedBalance(es, n - 1, u)
         + CentsOf(es[n].payers,
                   [x \in 1..Len(es[n].payers) |-> toCents(es[n].payers[x].amount_paid)], u)
         - CentsOf(es[n].shares, CorrectedShares(es[n]), u)

\* C13 (reconciliation): after each accumulated expense the balances are those
\* of the rounded payer amounts and of the shares with the whole difference put
\* on the first largest share and on no other; the shares so corrected sum to
\* the paid total.
C13_Reconciliation ==
    \A c \in Calls :
        pc[c] \in {"expenses", "match", "returned", "thrown"} =>
            /\ \A u \in DOMAIN balanceCentsByUser[c] :
                   balanceCentsByUser[c][u] = ExpectedBalance(expenses[c], k[c], u)
            /\ \A n \in 1..k[c] :
                   SumSeq(ReconciledShareCents(expenses[c][n]))
                       = SumSeq(PayerCents(expenses[c][n]))

\* An expense was accumulated whose shares are three equal largest ones and whose
\* totals differ: the first share took the difference.
C13_Witness ==
    /\ pc[1] = "expenses" /\ k[1] = 1
    /\ LET owed == ShareCents(expenses[1][1]) IN
       /\ Len(owed) = 3 /\ owed[1] = owed[2] /\ owed[2] = owed[3]
       /\ DiffCents(expenses[1][1]) # 0
       /\ balanceCentsByUser[1][expenses[1][1].shares[1].user_id]
              = 0 - owed[1] - DiffCents(expenses[1][1])

\* Putting the difference on the largest share would make it negative.
Unbalanceable(expense) ==
    LET paid == [x \in 1..Len(expense.payers) |-> toCents(expense.payers[x].amount_paid)]
        owed == [x \in 1..Len(expense.shares) |-> toCents(expense.shares[x].amount_owed)]
    IN  owed[FirstLargest(owed)] + SumSeq(paid) - SumSeq(owed) < 0

\* C14 (unbalanceable expense): an expense that meets the preconditions and whose
\* largest share plus diffCents is negative makes the invocation throw an error
\* naming that expense id, with no result; such an expense is never accumulated,
\* and no accumulated share is negative.
C14_UnbalanceableFails ==
    \A c \in Calls :
        /\ \A n \in 1..k[c] :
               /\ ~Unbalanceable(expenses[c][n])
               /\ \A x \in 1..Len(expenses[c][n].shares) :
                      ReconciledShareCents(expenses[c][n])[x] >= 0
        /\ \A n \in 1..Len(expenses[c]) :
               (/\ ~BreaksPrecondition(expenses[c][n], Range(members[c]))
                /\ Unbalanceable(expenses[c][n])) =>
                   /\ ~Returned(c)
                   /\ (Threw(c) /\ k[c] = n - 1) =>
                          /\ error[c].message = "cannot be balanced after rounding"
                          /\ error[c].expense = expenses[c][n].id
                          /\ NoResult(c)

\* The second expense could not be balanced; the first had been accumulated.
C14_Witness ==
    /\ Threw(1) /\ k[1] = 1
    /\ error[1].message = "cannot be balanced after rounding"
    /\ error[1].expense = "e2"
    /\ Unbalanceable(expenses[1][2])
    /\ \E m \in DOMAIN balanceCentsByUser[1] : balanceCentsByUser[1][m] # 0

----------------------------------------------------------------------------
(* Classification *)

UserIds(entries) == { entries[x].user_id : x \in 1..Len(entries) }

\* C15 (classification): once the lists are built and in every result, creditors
\* holds exactly the members with a net balance > 0 and debtors exactly those
\* with a net balance < 0, each entry with the absolute value of the member's
\* balance; a member at 0 is in neither list, no member is in both, and on a
\* roster of distinct ids no member is listed twice.
C15_Classification ==
    \A c \in Calls :
        pc[c] \in {"match", "returned"} =>
            /\ UserIds(creditors[c]) =
                   { m \in Range(members[c]) : netBalances[c][m].val > 0 }
            /\ UserIds(debtors[c]) =
                   { m \in Range(members[c]) : netBalances[c][m].val < 0 }
            /\ \A x \in 1..Len(creditors[c]) :
                   creditors[c][x].amount =
                       Num(Abs(netBalances[c][creditors[c][x].user_id].val))
            /\ \A x \in 1..Len(debtors[c]) :
                   debtors[c][x].amount =
                       Num(Abs(netBalances[c][debtors[c][x].user_id].val))
            /\ UserIds(creditors[c]) \cap UserIds(debtors[c]) = {}
            /\ Distinct(members[c]) =>
                   /\ Len(creditors[c]) = Cardinality(UserIds(creditors[c]))
                   /\ Len(debtors[c]) = Cardinality(UserIds(debtors[c]))

\* A result with a creditor, a debtor and a member at 0 who is in neither list.
C15_Witness ==
    /\ Returned(1)
    /\ Len(creditors[1]) >= 1 /\ Len(debtors[1]) >= 1
    /\ \E m \in Range(members[1]) :
           /\ netBalances[1][m] = Num(0)
           /\ m \notin UserIds(creditors[1]) \cup UserIds(debtors[1])

----------------------------------------------------------------------------
(* Scenarios *)

RECURSIVE SumAmounts(_)
\* The total of the amounts of a list of settlements, in thousandths.
SumAmounts(ss) == IF ss = <<>> THEN 0 ELSE Head(ss).amount.val + SumAmounts(Tail(ss))

\* Members [A, B, C] = [u1, u2, u3] and the single expense ThreeWaySplit.
IsThreeWayScenario(c) ==
    /\ members[c] = <<"u1", "u2", "u3">>
    /\ expenses[c] = WithIds(<<ThreeWaySplit>>)

\* C16 as stated: the scenario returns netBalances {A: 66.66, B: -33.33,
\* C: -33.34} and exactly two settlements, both paid to A, totalling 100.00.
C16_ThreeWaySplitAsStated ==
    \A c \in Calls :
        (IsThreeWayScenario(c) /\ Done(c)) =>
            /\ Returned(c)
            /\ netBalances[c] =
                   [m \in {"u1", "u2", "u3"} |->
                       IF m = "u1" THEN Num(66660)
                       ELSE IF m = "u2" THEN Num(-33330) ELSE Num(-33340)]
            /\ Len(settlements[c]) = 2
            /\ \A x \in 1..Len(settlements[c]) : settlements[c][x].payee_id = "u1"
            /\ SumAmounts(settlements[c]) = 100000

\* C16 (amended): the scenario returns netBalances {A: 66.67, B: -33.33,
\* C: -33.34} and exactly two settlements, both paid to A, totalling 66.67.
C16_ThreeWaySplit ==
    \A c \in Calls :
        (IsThreeWayScenario(c) /\ Done(c)) =>
            /\ Returned(c)
            /\ netBalances[c] =
                   [m \in {"u1", "u2", "u3"} |->
                       IF m = "u1" THEN Num(66670)
                       ELSE IF m = "u2" THEN Num(-33330) ELSE Num(-33340)]
            /\ Len(settlements[c]) = 2
            /\ \A x \in 1..Len(settlements[c]) : settlements[c][x].payee_id = "u1"
            /\ SumAmounts(settlements[c]) = 66670

\* The scenario ran to its return.
C16_Witness ==
    /\ IsThreeWayScenario(1)
    /\ Returned(1)
    /\ Len(settlements[1]) = 2

----------------------------------------------------------------------------
(* Matching *)

Positive(c) == { m \in DOMAIN netBalances[c] : netBalances[c][m].val > 0 }
Negative(c) == { m \in DOMAIN netBalances[c] : netBalances[c][m].val < 0 }

\* Exactly one settlement per debtor, from that debtor to the creditor cr, for
\* the debtor's whole debt.
DrainedInto(c, cr) ==
    /\ Len(settlements[c]) = Cardinality(Negative(c))
    /\ \A d \in Negative(c) :
           \E x \in 1..Len(settlements[c]) :
               settlements[c][x] =
                   [payer_id |-> d, payee_id |-> cr,
                    amount |-> Num(0 - netBalances[c][d].val)]

\* C17 (single-creditor draining): whenever exactly one member of a result has a
\* positive net balance, settlements holds exactly one transaction per debtor,
\* from that debtor to the sole creditor for the debtor's full debt.
C17_SingleCreditorDrained ==
    \A c \in Calls :
        (Returned(c) /\ Cardinality(Positive(c)) = 1) =>
            \A cr \in Positive(c) : DrainedInto(c, cr)

\* The same on rosters of distinct member ids only.
C17_OnDistinctRosters ==
    \A c \in Calls :
        (Returned(c) /\ Distinct(members[c]) /\ Cardinality(Positive(c)) = 1) =>
            \A cr \in Positive(c) : DrainedInto(c, cr)


\* The loop of invocation c is about to run an iteration.
AtIteration(c) ==
    pc[c] = "match" /\ i[c] < Len(debtorCents[c]) /\ j[c] < Len(creditorCents[c])

\* The entries at the two cursors have the largest remaining cents of their lists.
LargestAtCursors(c) ==
    /\ \A x \in 1..Len(debtorCents[c]) :
           debtorCents[c][x].cents <= debtorCents[c][i[c] + 1].cents
    /\ \A x \in 1..Len(creditorCents[c]) :
           creditorCents[c][x].cents <= creditorCents[c][j[c] + 1].cents

\* The iteration moved the smaller of the two remaining amounts.
MovedMinimum(c) ==
    LET debtor == debtorCents[c][i[c] + 1]
        creditor == creditorCents[c][j[c] + 1]
        least == IF debtor.cents <= creditor.cents THEN debtor.cents ELSE creditor.cents
    IN  /\ debtorCents'[c][i[c] + 1].cents = debtor.cents - least
        /\ creditorCents'[c][j[c] + 1].cents = creditor.cents - least
        /\ settlements'[c] = Append(settlements[c],
               [payer_id |-> debtor.user_id, payee_id |-> creditor.user_id,
                amount |-> Num(least * 10)])

\* C18 (largest first): every iteration of the matching loop pairs the debtor
\* and the creditor with the largest remaining amount of all debtors and of all
\* creditors, and transfers the minimum of their two remaining amounts.
C18_PairsLargestRemaining ==
    [][\A c \in Calls :
          (AtIteration(c) /\ <<debtorCents[c], creditorCents[c]>>
                                 # <<debtorCents'[c], creditorCents'[c]>>) =>
              LargestAtCursors(c) /\ MovedMinimum(c)]_vars

----------------------------------------------------------------------------
(* Round trip *)

\* Invocation d runs on the expenses of invocation c, which has returned,
\* followed by one pseudo-expense for each settlement c returned.
RoundTrip(c, d) ==
    /\ Returned(c)
    /\ Distinct(members[c])
    /\ members[d] = members[c]
    /\ expenses[d] = expenses[c] \o PseudoExpenses(settlements[c], Len(expenses[c]))

\* C19 (round trip): for a roster of distinct ids and an input on which
\* calculateTripDebts returns settlements S, the call on the same expenses
\* followed by one pseudo-expense per settlement of S (payer_id paying the
\* amount, payee_id owing it) returns every net balance 0 and no settlements.
C19_RoundTrip ==
    (RoundTrip(1, 2) /\ Done(2)) =>
        /\ Returned(2)
        /\ \A m \in Range(members[2]) : netBalances[2][m] = Num(0)
        /\ settlements[2] = <<>>

\* A plan of three settlements went back in as expenses and left nothing owed.
C19_Witness ==
    /\ RoundTrip(1, 2)
    /\ Len(settlements[1]) = 3
    /\ Returned(2)
    /\ settlements[2] = <<>>
    /\ \A m \in Range(members[2]) : netBalances[2][m] = Num(0)

----------------------------------------------------------------------------
(* Recorded settlements *)

\* The page has rendered the rows now in storage.
PageIsCurrent == pc[2] # "idle" /\ ~stale

\* What the rows that record settlements make member m have paid, less what
\* they make m owe, in cents.
RECURSIVE SettledCents(_, _)
SettledCents(rows, m) ==
    IF rows = <<>> THEN 0
    ELSE (IF ~Head(rows).is_settlement THEN 0
          ELSE (IF Head(rows).payers[1].user_id = m
                THEN toCents(Head(rows).payers[1].amount_paid) ELSE 0)
               - (IF Head(rows).shares[1].user_id = m
                  THEN toCents(Head(rows).shares[1].amount_owed) ELSE 0))
         + SettledCents(Tail(rows), m)

\* C20 (the page and recorded settlements): the trip page hands
\* calculateTripDebts the trip's full stored expense list, the expenses recorded
\* as settlements included, so the plan computed after a suggested payment is
\* confirmed and stored reflects it: what a member still has to send, less what
\* the member still has to receive, is what the earlier plan said less what the
\* member has paid since.
C20_PageCountsRecordedSettlements ==
    PageIsCurrent =>
        /\ expenses[2] = ExpenseInputsOf(stored)
        /\ (Returned(2) /\ Distinct(members[2])) =>
               \A m \in Range(members[2]) :
                   SentCents(settlements[2], m) - ReceivedCents(settlements[2], m)
                       = SentCents(settlements[1], m) - ReceivedCents(settlements[1], m)
                         - SettledCents(stored, m)

----------------------------------------------------------------------------
(* Concurrency *)

\* Invocation c is between its first line and its return or throw.
Running(c) == pc[c] \in {"start", "expenses", "match"}

----------------------------------------------------------------------------
(* Conversions *)

\* Every number of cents up to MaxCents survives fromCents and then toCents.
CentsRoundTrip == \A cents \in 0..MaxCents : toCents(fromCents(cents)) = cents

----------------------------------------------------------------------------
(* Equal split *)

\* The cents of a share, whichever copy made it.
ShareCentsOf(share) ==
    IF "cents" \in DOMAIN share THEN share.cents ELSE share.amountCents

\* C23 (equal split): for every totalCents >= 0 and every non-empty list of n
\* user ids splitCentsEqually returns n shares, one per id in list order, whose
\* cents sum to totalCents and differ by at most 1, the extra cent going to the
\* first (totalCents mod n) users; an empty list is rejected with an error.
C23_EqualSplit ==
    LET n == Len(split.userIds)
        cents == [x \in 1..Len(split.shares) |-> ShareCentsOf(split.shares[x])]
    IN  split.pc # "start" =>
            IF n = 0
            THEN split.pc = "thrown"
            ELSE /\ split.pc = "returned"
                 /\ Len(split.shares) = n
                 /\ \A x \in 1..n : split.shares[x].user_id = split.userIds[x]
                 /\ SumSeq(cents) = split.totalCents
                 /\ \A x, y \in 1..n : cents[x] - cents[y] <= 1
                 /\ \A x \in 1..n :
                        cents[x] = (split.totalCents \div n)
                                   + (IF x <= split.totalCents % n THEN 1 ELSE 0)

----------------------------------------------------------------------------
(* Defensive checks *)

\* The expense at position n needed the rounding hardening.
Hardened(expense) == DiffCents(expense) # 0

\* C24 (the net-sum check is unreachable): on a roster of distinct member ids
\* the balance cents of the members sum to 0 after every expense that passed
\* validation and reconciliation, so the check behind the classification never
\* throws "Net balances do not sum to zero".
C24_NetSumUnreachable ==
    \A c \in Calls :
        (pc[c] # "idle" /\ Distinct(members[c])) =>
            /\ NetSumCents(balanceCentsByUser[c], members[c]) = 0
            /\ ~(Threw(c) /\ error[c].message = "Net balances do not sum to zero")

\* A call on distinct members that got past the check with non-zero balances
\* made from two expenses, one of which was reconciled.
C24_Witness ==
    /\ Distinct(members[1])
    /\ pc[1] = "match"
    /\ k[1] = 2
    /\ \E n \in 1..2 : Hardened(expenses[1][n])
    /\ \E m \in Range(members[1]) : Get(balanceCentsByUser[1], m) > 0

\* Every entry of a list of cents is used up.
AllZero(centsEntries) == \A x \in 1..Len(centsEntries) : centsEntries[x].cents = 0

\* The call got into the matching loop: the net-sum check passed and both lists
\* have entries.
EnteredMatching(c) ==
    /\ pc[c] \in {"match", "returned"}
    /\ Len(debtorCents[c]) > 0
    /\ Len(creditorCents[c]) > 0

\* The loop condition i < debtorCents.length && j < creditorCents.length is false.
LoopExited(c) ==
    pc[c] = "returned" \/ ~(i[c] < Len(debtorCents[c]) /\ j[c] < Len(creditorCents[c]))

\* C25 (exhaustion): whenever the matching loop was entered, it exits with both
\* cursors at the end of their lists and every debtor and creditor entry at 0
\* cents: the loop is never left by a throw, and "Unsettled balances remain
\* after simplification" is never thrown, whatever the input.
C25_Exhaustion ==
    \A c \in Calls :
        /\ (EnteredMatching(c) /\ LoopExited(c)) =>
               /\ i[c] = Len(debtorCents[c])
               /\ j[c] = Len(creditorCents[c])
               /\ AllZero(debtorCents[c])
               /\ AllZero(creditorCents[c])
        /\ ~(Threw(c) /\ error[c].message \in
                  {"Unsettled balances remain after simplification.",
                   "Invalid settlement: self-payment would occur."})

\* A loop that went through two debtors and two creditors and has exited.
C25_Witness ==
    /\ Returned(1)
    /\ Len(debtorCents[1]) >= 2
    /\ Len(creditorCents[1]) >= 2
    /\ i[1] = Len(debtorCents[1])
    /\ j[1] = Len(creditorCents[1])
    /\ Len(settlements[1]) >= 3

----------------------------------------------------------------------------
(* The matching loop *)

\* debtorCents and creditorCents as the loop found them: classified and sorted.
OriginalDebtorCents(c) == SortEntries(DebtorCentsOf(balanceCentsByUser[c], members[c]))
OriginalCreditorCents(c) == SortEntries(CreditorCentsOf(balanceCentsByUser[c], members[c]))

\* A list of the loop with its cursor: used up before it, in use at it,
\* untouched after it.
CursorInvariant(centsEntries, original, cursor) ==
    /\ Len(centsEntries) = Len(original)
    /\ \A x \in 1..Len(centsEntries) :
           /\ centsEntries[x].user_id = original[x].user_id
           /\ x < cursor + 1 => centsEntries[x].cents = 0
           /\ x = cursor + 1 => /\ centsEntries[x].cents > 0
                                /\ centsEntries[x].cents <= original[x].cents
           /\ x > cursor + 1 => centsEntries[x].cents = original[x].cents

\* C26 (loop invariant): at the start of every iteration of the matching loop
\* the remaining cents of all debtors equal the remaining cents of all
\* creditors, every entry before a cursor is at 0, the entry at a cursor is
\* strictly positive and at most its original amount, and every entry after a
\* cursor has its original amount.
C26_LoopInvariant ==
    \A c \in Calls :
        AtIteration(c) =>
            /\ RemainingCents(debtorCents[c], 0) = RemainingCents(creditorCents[c], 0)
            /\ CursorInvariant(debtorCents[c], OriginalDebtorCents(c), i[c])
            /\ CursorInvariant(creditorCents[c], OriginalCreditorCents(c), j[c])

\* An iteration that starts with a creditor used up, a debtor partly paid at
\* its cursor and another debtor untouched behind it.
C26_Witness ==
    /\ AtIteration(1)
    /\ j[1] >= 1
    /\ debtorCents[1][i[1] + 1].cents < OriginalDebtorCents(1)[i[1] + 1].cents
    /\ i[1] + 1 < Len(debtorCents[1])

\* The first position of a user in a list of entries.
IndexOf(entries, id) ==
    CHOOSE x \in 1..Len(entries) :
        /\ entries[x].user_id = id
        /\ \A y \in 1..(x - 1) : entries[y].user_id # id

\* The first position of a user in the roster.
RosterIndex(ms, id) ==
    CHOOSE x \in 1..Len(ms) : ms[x] = id /\ \A y \in 1..(x - 1) : ms[y] # id

\* Descending by cents, entries of equal cents in the order of the roster.
DescendingStable(entries, ms) ==
    \A x, y \in 1..Len(entries) :
        x < y => /\ entries[x].cents >= entries[y].cents
                 /\ entries[x].cents = entries[y].cents =>
                        RosterIndex(ms, entries[x].user_id) <= RosterIndex(ms, entries[y].user_id)

RECURSIVE PaidCentsBy(_, _)
\* The cents a payer has sent in a list of settlements.
PaidCentsBy(ss, id) ==
    IF ss = <<>> THEN 0
    ELSE (IF Head(ss).payer_id = id THEN toCents(Head(ss).amount) ELSE 0)
         + PaidCentsBy(Tail(ss), id)

\* The settlements so far follow the two sorted lists.
EmittedInOrder(c) ==
    LET ss == settlements[c]
        ds == OriginalDebtorCents(c)
        cs == OriginalCreditorCents(c)
    IN  /\ DescendingStable(ds, members[c])
        /\ DescendingStable(cs, members[c])
        /\ \A x, y \in 1..Len(ss) :
               x < y => /\ IndexOf(ds, ss[x].payer_id) <= IndexOf(ds, ss[y].payer_id)
                        /\ IndexOf(cs, ss[x].payee_id) <= IndexOf(cs, ss[y].payee_id)
                        /\ <<ss[x].payer_id, ss[x].payee_id>> # <<ss[y].payer_id, ss[y].payee_id>>
        /\ \A x \in 1..(Len(ss) - 1) :
               ss[x].payer_id # ss[x + 1].payer_id =>
                   PaidCentsBy(SubSeq(ss, 1, x), ss[x].payer_id)
                       = ds[IndexOf(ds, ss[x].payer_id)].cents

\* C27 (emission order): debtors pay one after another in descending order of
\* their original debt, ties in roster order, and creditors are filled one
\* after another in descending order of their original credit; a debtor's
\* settlements are one contiguous run and the next debtor pays only when the
\* one before is fully settled; the cursors never move backwards and no pair
\* (payer_id, payee_id) appears twice.
C27_EmissionOrder ==
    /\ [](\A c \in Calls : pc[c] \in {"match", "returned"} => EmittedInOrder(c))
    /\ [][\A c \in Calls : pc[c] = "match" => i'[c] >= i[c] /\ j'[c] >= j[c]]_vars

\* C27 on rosters whose ids are distinct.
C27_OnDistinctRosters ==
    /\ [](\A c \in Calls :
             (Distinct(members[c]) /\ pc[c] \in {"match", "returned"}) => EmittedInOrder(c))
    /\ [][\A c \in Calls : pc[c] = "match" => i'[c] >= i[c] /\ j'[c] >= j[c]]_vars

----------------------------------------------------------------------------
(* What matching leaves alone *)

\* The members with a balance on one side (sign 1 for credit, -1 for debt), in
\* roster order, each with the absolute amount of the balance.
InRosterOrder(c, sign) ==
    LET listed == SelectSeq(members[c], LAMBDA m : sign * Get(balanceCentsByUser[c], m) > 0)
    IN  [x \in 1..Len(listed) |->
            [user_id |-> listed[x],
             amount |-> Num(sign * Get(balanceCentsByUser[c], listed[x]) * 10)]]

\* C28 (matching works on copies): the matching phase changes none of
\* netBalances, creditors and debtors; what is returned is what classification
\* produced: every member's balance, and creditors and debtors in roster order
\* with the member's full original absolute balance, whatever the sort and the
\* loop did to the working lists.
C28_ResultIsClassification ==
    /\ [](\A c \in Calls :
             pc[c] \in {"match", "returned"} =>
                 /\ DOMAIN netBalances[c] = Range(members[c])
                 /\ \A m \in Range(members[c]) :
                        netBalances[c][m] = Num(Get(balanceCentsByUser[c], m) * 10)
                 /\ creditors[c] = InRosterOrder(c, 1)
                 /\ debtors[c] = InRosterOrder(c, -1))
    /\ [][\A c \in Calls :
             pc[c] = "match" =>
                 /\ netBalances'[c] = netBalances[c]
                 /\ creditors'[c] = creditors[c]
                 /\ debtors'[c] = debtors[c]]_vars

\* A result after a loop that used up lists which the sort had reordered.
C28_Witness ==
    /\ Returned(1)
    /\ Len(settlements[1]) >= 2
    /\ Len(creditors[1]) >= 2
    /\ creditors[1][1].user_id # creditorCents[1][1].user_id
    /\ AllZero(creditorCents[1])
    /\ AllZero(debtorCents[1])

----------------------------------------------------------------------------
(* Size of the mismatch *)

\* Paid cents minus owed cents of an expense, from its amounts.
Mismatch(expense) ==
    SumSeq([x \in 1..Len(expense.payers) |-> toCents(expense.payers[x].amount_paid)])
        - SumSeq([x \in 1..Len(expense.shares) |-> toCents(expense.shares[x].amount_owed)])

\* C29 (any size of mismatch): an expense that meets the preconditions and whose
\* paid and owed totals differ by any amount, positive of any size or negative
\* with largest share + diff >= 0, never makes calculateTripDebts fail: the
\* whole difference goes onto the largest share and the expense is accumulated
\* as a balanced one.
C29_AnyMismatchReconciled ==
    \A c \in Calls :
        \A n \in 1..Len(expenses[c]) :
            (/\ ~BreaksPrecondition(expenses[c][n], Range(members[c]))
             /\ Mismatch(expenses[c][n]) # 0
             /\ ~Unbalanceable(expenses[c][n])) =>
                /\ ~(Threw(c) /\ k[c] = n - 1)
                /\ (pc[c] = "expenses" /\ k[c] = n) =>
                       /\ SumSeq(CorrectedShares(expenses[c][n]))
                              = SumSeq(PayerCents(expenses[c][n]))
                       /\ \A u \in DOMAIN balanceCentsByUser[c] :
                              balanceCentsByUser[c][u] = ExpectedBalance(expenses[c], n, u)

\* An expense paid 5.00 and owed 1.00 was accumulated: the one share took the
\* 400 cents.
C29_Witness ==
    /\ pc[1] = "expenses"
    /\ k[1] = 1
    /\ Mismatch(expenses[1][1]) = 400
    /\ Len(expenses[1][1].shares) = 1
    /\ Get(balanceCentsByUser[1], expenses[1][1].shares[1].user_id) = -500

----------------------------------------------------------------------------
(* Repeated member ids *)

RECURSIVE WithoutRepeats(_)
\* The member list with every id kept where it is listed first.
WithoutRepeats(ms) ==
    IF ms = <<>> THEN <<>>
    ELSE LET front == WithoutRepeats(SubSeq(ms, 1, Len(ms) - 1))
         IN  IF ms[Len(ms)] \in Range(front) THEN front ELSE Append(front, ms[Len(ms)])

\* C30 (repeated ids are counted once): on a member list with repeated ids
\* calculateTripDebts gives the outcome (netBalances, creditors, debtors,
\* settlements, or the failure) it gives on the same list with the repeats
\* removed, for every expense list.
C30_RepeatsCountedOnce ==
    \A c \in Calls :
        Done(c) => Outcome(c) = calculateTripDebts(expenses[c], WithoutRepeats(members[c]))

\* C30 on rosters whose ids are distinct, where there is nothing to remove.
C30_OnDistinctRosters ==
    \A c \in Calls :
        (Done(c) /\ Distinct(members[c])) =>
            Outcome(c) = calculateTripDebts(expenses[c], WithoutRepeats(members[c]))

====
